---- MODULE Spec2Model ----
(***************************************************************************)
(* Model of the event registration page                                    *)
(*   src/app/[company_name]/[event_id]/register/page.tsx                   *)
(* The component state (useState cells), the lookup effect, the two        *)
(* network calls and the handlers handleChange / handleSubmit are           *)
(* translated from the component.  Strings that the code inspects           *)
(* (trim, toLowerCase, the two regular expressions) are sequences of        *)
(* one-character strings; messages and enum values are plain strings.       *)
(* State updates made by one synchronous run of a handler or of one         *)
(* continuation after an await are committed together (React 18 batching).  *)
(***************************************************************************)
EXTENDS Integers, Sequences, FiniteSets, TLC

VARIABLES
    companyName,      \* decoded path segment company_name
    eventId,          \* decoded path segment event_id
    formData,         \* useState<FormData>
    formErrors,       \* useState<FormErrors>
    loading,          \* useState(true)
    submitting,       \* useState(false)
    error,            \* useState('')
    success,          \* useState(false)
    event,            \* useState<Event | null>(null)
    eventDisabled,    \* useState(false)
    companyDisabled,  \* useState(false)
    effectDeps,       \* dependency values of the last run of the lookup effect
    lookups,          \* event lookups in flight, each with the values its closure captured
    writes,           \* registration writes in flight (request bodies)
    lookupLog,        \* outcome of every lookup that has resolved, in order of arrival
    resolved,         \* every registration write that has resolved, with its outcome
    lastOp,           \* the handler or continuation that ran last
    mounted,          \* the component is mounted
    navs              \* changes of the path identifiers so far

vars == <<companyName, eventId, formData, formErrors, loading, submitting, error,
          success, event, eventDisabled, companyDisabled, effectDeps, lookups,
          writes, lookupLog, resolved, lastOp, mounted, navs>>

(***************************************************************************)
(* Bounds of the model                                                     *)
(***************************************************************************)
\* registration writes issued per page load
MaxWrites == 2
\* events in one lookup response
MaxEvents == 2
\* changes of the path identifiers while the component stays mounted
MaxNav == 1
\* length of the phone strings the validator is tried on
MaxPhoneLen == 16
\* length of the email strings the validator is tried on
MaxEmailLen == 5

(***************************************************************************)
(* Values                                                                  *)
(***************************************************************************)
\* the null of useState<Event | null>: event is <<>> or <<e>>
Null == <<>>
Undefined == "undefined"

Digits == {"0", "1", "2", "3", "4", "5", "6", "7", "8", "9"}
Whitespace == {" "}

TextFields == {"name", "phone", "email", "college", "nationalId"}
SelectFields == {"gender", "status"}
AllFields == TextFields \cup SelectFields

EmptyForm ==
    [name |-> <<>>, phone |-> <<>>, email |-> <<>>, gender |-> "male",
     college |-> <<>>, status |-> "student", nationalId |-> <<>>]

NoErrors == [f \in AllFields |-> Undefined]

PhoneMinDigits == 10
PhoneMaxDigits == 15

NineDigits == <<"1", "2", "3", "4", "5", "6", "7", "8", "9">>
TenDigits == <<"1", "2", "3", "4", "5", "6", "7", "8", "9", "0">>

\* the values a change event can carry, per field
FieldValues(f) ==
    CASE f = "name" -> {<<>>, <<" ">>, <<"A", "d", "a">>}
      [] f = "phone" -> {<<>>, NineDigits, TenDigits}
      [] f = "email" -> {<<>>, <<"a", "@", "b">>, <<"a", "@", "b", ".", "c">>}
      [] f = "college" -> {<<>>, <<"M", "I", "T">>}
      [] f = "nationalId" -> {<<>>, <<"2", "9">>}
      [] f = "gender" -> {"male", "female"}
      [] f = "status" -> {"student", "graduate"}

\* the one value a change event carries per free-text field when the whole life
\* of the component is explored: a value that passes validation
ValidValue(f) ==
    CASE f = "name" -> <<"A", "d", "a">>
      [] f = "phone" -> TenDigits
      [] f = "email" -> <<"a", "@", "b", ".", "c">>
      [] f = "college" -> <<"M", "I", "T">>
      [] f = "nationalId" -> <<"2", "9">>

Companies == {"Acme", "Globex"}
PathIds == {<<"L", "P">>, <<"x">>}
ResponseIds == {<<"l", "p">>, <<" ", "X">>}
StatusValues == {"active", "disabled"}

Events == [id : ResponseIds, status : StatusValues, companyStatus : StatusValues]

RECURSIVE SeqsUpTo(_, _)
SeqsUpTo(S, n) ==
    IF n = 0 THEN {<<>>}
    ELSE LET shorter == SeqsUpTo(S, n - 1)
         IN  shorter \cup {Append(s, x) : s \in shorter, x \in S}

DigitChars == <<"0", "1", "2", "3", "4", "5", "6", "7", "8", "9">>

\* n digit characters
DigitRun(n) == [i \in 1..n |-> DigitChars[(i % 10) + 1]]

\* characters of a phone input that are not digits
NonDigits == {" ", "a", "+"}

\* the phone strings the validator is tried on: runs of digits of every length,
\* and the same runs with one character that is not a digit, at every position
PhoneInputs ==
    {DigitRun(n) : n \in 0..MaxPhoneLen}
    \cup UNION {{[DigitRun(n) EXCEPT ![k] = c] : k \in 1..n, c \in NonDigits} :
                n \in 1..MaxPhoneLen}

EmailAlphabet == {"a", "@", ".", " "}

\* the email strings the validator is tried on: every string over the alphabet,
\* with at most one whitespace character
EmailInputs ==
    {s \in SeqsUpTo(EmailAlphabet, MaxEmailLen) :
        Cardinality({i \in 1..Len(s) : s[i] = " "}) <= 1}

\* what the event listing endpoint can answer
LookupResponses ==
    {[kind |-> k, events |-> <<>>] : k \in {"denied", "error", "network"}}
    \cup {[kind |-> "ok", events |-> es] : es \in SeqsUpTo(Events, MaxEvents)}

\* what the registration endpoint can answer
WriteResponses ==
    {[kind |-> "ok", error |-> Undefined],
     [kind |-> "rejected", error |-> "Duplicate registration"],
     [kind |-> "rejected", error |-> ""],
     [kind |-> "rejected", error |-> Undefined],
     [kind |-> "unreadable", error |-> Undefined],
     [kind |-> "network", error |-> Undefined]}

(***************************************************************************)
(* String functions the code uses                                          *)
(***************************************************************************)
IsSpace(c) == c \in Whitespace

RECURSIVE TrimStart(_)
TrimStart(s) ==
    IF s = <<>> THEN s
    ELSE IF IsSpace(Head(s)) THEN TrimStart(Tail(s)) ELSE s

RECURSIVE TrimEnd(_)
TrimEnd(s) ==
    IF s = <<>> THEN s
    ELSE IF IsSpace(s[Len(s)]) THEN TrimEnd(SubSeq(s, 1, Len(s) - 1)) ELSE s

\* String.prototype.trim
Trim(s) == TrimEnd(TrimStart(s))

LowerOf(c) ==
    CASE c = "L" -> "l"
      [] c = "P" -> "p"
      [] c = "X" -> "x"
      [] OTHER -> c

\* String.prototype.toLowerCase
ToLower(s) == [i \in 1..Len(s) |-> LowerOf(s[i])]

\* id.trim().toLowerCase()
Normalize(s) == ToLower(Trim(s))

\* the phone pattern without its anchors: /\d{10,15}/.test(s)
PhonePattern_Unanchored(s) ==
    \E i \in 1..Len(s) :
        /\ i + PhoneMinDigits - 1 <= Len(s)
        /\ \A k \in i..(i + PhoneMinDigits - 1) : s[k] \in Digits

\* /^\d{10,15}$/.test(s)
PhonePattern(s) ==
    /\ Len(s) >= PhoneMinDigits
    /\ Len(s) <= PhoneMaxDigits
    /\ \A i \in 1..Len(s) : s[i] \in Digits

\* [^\s@]
EmailChar(c) == ~IsSpace(c) /\ c # "@"

\* the email pattern with * for + around the dot: /^[^\s@]+@[^\s@]*\.[^\s@]*$/.test(s)
EmailPattern_AnyDot(s) ==
    \E i \in 1..Len(s) : \E j \in 1..Len(s) :
        /\ s[i] = "@"
        /\ s[j] = "."
        /\ 1 < i
        /\ i < j
        /\ \A k \in 1..Len(s) : k # i => EmailChar(s[k])

\* /^[^\s@]+@[^\s@]+\.[^\s@]+$/.test(s)
EmailPattern(s) ==
    \E i \in 1..Len(s) : \E j \in 1..Len(s) :
        /\ s[i] = "@"
        /\ s[j] = "."
        /\ 1 < i
        /\ i + 1 < j
        /\ j < Len(s)
        /\ \A k \in 1..Len(s) : k # i => EmailChar(s[k])

(***************************************************************************)
(* validateField                                                           *)
(***************************************************************************)
\* validateField with the phone pattern test left out
validateField_NoPhonePattern(name, value) ==
    CASE name = "name" ->
           IF Trim(value) = <<>> THEN "Full name is required" ELSE ""
      [] name = "phone" ->
           IF Trim(value) = <<>> THEN "Phone number is required" ELSE ""
      [] name = "email" ->
           IF Trim(value) = <<>> THEN "Email is required"
           ELSE IF ~EmailPattern(value) THEN "Invalid email format" ELSE ""
      [] name = "college" ->
           IF Trim(value) = <<>> THEN "College name is required" ELSE ""
      [] name = "nationalId" ->
           IF Trim(value) = <<>> THEN "National ID is required" ELSE ""
      [] OTHER -> ""

validateField(name, value) ==
    CASE name = "name" ->
           IF Trim(value) = <<>> THEN "Full name is required" ELSE ""
      [] name = "phone" ->
           IF Trim(value) = <<>> THEN "Phone number is required"
           ELSE IF ~PhonePattern(value)
                THEN "Invalid phone number format. Must be 10-15 digits"
                ELSE ""
      [] name = "email" ->
           IF Trim(value) = <<>> THEN "Email is required"
           ELSE IF ~EmailPattern(value) THEN "Invalid email format" ELSE ""
      [] name = "college" ->
           IF Trim(value) = <<>> THEN "College name is required" ELSE ""
      [] name = "nationalId" ->
           IF Trim(value) = <<>> THEN "National ID is required" ELSE ""
      [] OTHER -> ""

\* an error object that keeps the entries the error map already held
SubmitErrors_KeepsOld(data) ==
    [f \in AllFields |->
        IF f \in TextFields /\ validateField(f, data[f]) # ""
        THEN validateField(f, data[f])
        ELSE formErrors[f]]

\* the error object handleSubmit builds: one entry per free-text field that fails
SubmitErrors(data) ==
    [f \in AllFields |->
        IF f \in TextFields /\ validateField(f, data[f]) # ""
        THEN validateField(f, data[f])
        ELSE Undefined]

\* hasErrors of handleSubmit
HasErrors(data) == \E f \in TextFields : validateField(f, data[f]) # ""

(***************************************************************************)
(* What the component renders                                              *)
(***************************************************************************)
\* the render function without the early return for the disabled flags
View_NoDisabledReturn ==
    IF loading THEN "loading"
    ELSE IF error # "" /\ ~submitting THEN "error"
    ELSE IF success THEN "success"
    ELSE "form"

\* the render function showing the form whether or not success is set
View_NoSuccessBranch ==
    IF loading THEN "loading"
    ELSE IF error # "" /\ ~submitting THEN "error"
    ELSE IF eventDisabled \/ companyDisabled
         THEN IF eventDisabled THEN "event-disabled" ELSE "org-disabled"
    ELSE "form"

\* the chain of early returns of the render function
View ==
    IF loading THEN "loading"
    ELSE IF error # "" /\ ~submitting THEN "error"
    ELSE IF eventDisabled \/ companyDisabled
         THEN IF eventDisabled THEN "event-disabled" ELSE "org-disabled"
    ELSE IF success THEN "success"
    ELSE "form"

\* the <form> element is in the tree
FormRendered == mounted /\ View = "form"

\* the error banner inside the form
BannerShown == FormRendered /\ error # ""

\* inputs and selects without the disabled attribute
InputsEnabled_NeverDisabled == FormRendered

\* inputs and selects carry disabled={submitting}
InputsEnabled == FormRendered /\ ~submitting

\* the submit button without the disabled attribute
SubmitEnabled_NeverDisabled == FormRendered

\* the submit button carries disabled={submitting}
SubmitEnabled == FormRendered /\ ~submitting

\* the dependency array of the lookup effect
CurrentDeps == <<companyName, eventId, companyDisabled>>

\* the lookup effect is due: its dependencies differ from those of its last run
EffectPending == mounted /\ effectDeps # CurrentDeps

(***************************************************************************)
(* Initial state: the first render, before the lookup effect has run       *)
(***************************************************************************)
Init ==
    /\ companyName \in Companies
    /\ eventId \in PathIds
    /\ formData = EmptyForm
    /\ formErrors = NoErrors
    /\ loading = TRUE
    /\ submitting = FALSE
    /\ error = ""
    /\ success = FALSE
    /\ event = Null
    /\ eventDisabled = FALSE
    /\ companyDisabled = FALSE
    /\ effectDeps = <<>>
    /\ lookups = <<>>
    /\ writes = <<>>
    /\ lookupLog = <<>>
    /\ resolved = <<>>
    /\ lastOp = "render"
    /\ mounted = TRUE
    /\ navs = 0

\* s without its i-th element
RemoveAt(s, i) == SubSeq(s, 1, i - 1) \o SubSeq(s, i + 1, Len(s))

(***************************************************************************)
(* The lookup effect: useEffect(..., [companyName, eventId, companyDisabled]) *)
(* runs fetchEventDetails up to its first await                            *)
(***************************************************************************)
RunEffect ==
    /\ EffectPending
    /\ effectDeps' = CurrentDeps
    /\ loading' = TRUE
    /\ lookups' = Append(lookups,
                         [company |-> companyName, eventId |-> eventId,
                          companyDisabled |-> companyDisabled])
    /\ lastOp' = "effect"
    /\ UNCHANGED <<companyName, eventId, formData, formErrors, submitting, error,
                   success, event, eventDisabled, companyDisabled, writes,
                   lookupLog, resolved, mounted, navs>>

\* a search that keeps the last matching event instead of the first
FindEvent_LastMatch(events, requested) ==
    LET hits == {i \in 1..Len(events) : Normalize(events[i].id) = Normalize(requested)}
    IN  IF hits = {} THEN Null
        ELSE <<events[CHOOSE i \in hits : \A j \in hits : i >= j]>>

\* data.events.find(e => e.id.trim().toLowerCase() === normalizedEventId)
FindEvent(events, requested) ==
    LET hits == {i \in 1..Len(events) : Normalize(events[i].id) = Normalize(requested)}
    IN  IF hits = {} THEN Null
        ELSE <<events[CHOOSE i \in hits : \A j \in hits : i <= j]>>

\* the lookup threw: no response, a non-ok response, or no matching event
LookupThrows(req, resp) ==
    \/ resp.kind # "ok"
    \/ FindEvent(resp.events, req.eventId) = Null

\* how the log classifies a lookup outcome
LookupOutcome(req, resp) ==
    IF resp.kind = "denied" THEN "denied"
    ELSE IF LookupThrows(req, resp) THEN "failed"
    ELSE "found"

\* a status test that never finds the flag
EventIsDisabled_Never(e) == FALSE

\* foundEvent.status === 'disabled'
EventIsDisabled(e) == e.status = "disabled"

\* foundEvent.companyStatus === 'disabled'
CompanyIsDisabled(e) == e.companyStatus = "disabled"

\* the catch block reads companyDisabled as the effect's closure captured it
CatchSetsError(req) == ~req.companyDisabled

(***************************************************************************)
(* fetchEventDetails after the response of lookup i has arrived            *)
(***************************************************************************)
LookupResponse(i, resp) ==
    /\ ~EffectPending
    /\ i \in 1..Len(lookups)
    /\ lookups' = RemoveAt(lookups, i)
    /\ lookupLog' = Append(lookupLog, LookupOutcome(lookups[i], resp))
    /\ IF ~mounted
       THEN UNCHANGED <<loading, error, event, eventDisabled, companyDisabled, lastOp>>
       ELSE LET req == lookups[i]
                found == FindEvent(resp.events, req.eventId)
            IN  /\ IF LookupThrows(req, resp)
                   THEN /\ companyDisabled' = (companyDisabled \/ resp.kind = "denied")
                        /\ error' = IF CatchSetsError(req)
                                    THEN "Event not found or no longer available"
                                    ELSE error
                        /\ UNCHANGED <<event, eventDisabled>>
                   ELSE /\ event' = found
                        /\ eventDisabled' = (eventDisabled \/ EventIsDisabled(found[1]))
                        /\ companyDisabled' =
                               (companyDisabled \/ CompanyIsDisabled(found[1]))
                        /\ UNCHANGED error
                /\ loading' = FALSE
                /\ lastOp' = "lookup-response"
    /\ UNCHANGED <<companyName, eventId, formData, formErrors, submitting, success,
                   effectDeps, writes, resolved, mounted, navs>>

(***************************************************************************)
(* handleChange                                                            *)
(***************************************************************************)
\* handleChange building the error map from the one field, without ...prev
handleChange_DropsOtherErrors(name, value) ==
    /\ ~EffectPending
    /\ InputsEnabled
    /\ formData' = [formData EXCEPT ![name] = value]
    /\ formErrors' = [NoErrors EXCEPT ![name] = validateField(name, value)]
    /\ lastOp' = "change"
    /\ UNCHANGED <<companyName, eventId, loading, submitting, error, success, event,
                   eventDisabled, companyDisabled, effectDeps, lookups, writes,
                   lookupLog, resolved, mounted, navs>>

\* handleChange storing the value without validating it
handleChange_KeepsError(name, value) ==
    /\ ~EffectPending
    /\ InputsEnabled
    /\ formData' = [formData EXCEPT ![name] = value]
    /\ lastOp' = "change"
    /\ UNCHANGED <<companyName, eventId, formErrors, loading, submitting, error,
                   success, event, eventDisabled, companyDisabled, effectDeps, lookups,
                   writes, lookupLog, resolved, mounted, navs>>

handleChange(name, value) ==
    /\ ~EffectPending
    /\ InputsEnabled
    /\ formData' = [formData EXCEPT ![name] = value]
    /\ formErrors' = [formErrors EXCEPT ![name] = validateField(name, value)]
    /\ lastOp' = "change"
    /\ UNCHANGED <<companyName, eventId, loading, submitting, error, success, event,
                   eventDisabled, companyDisabled, effectDeps, lookups, writes,
                   lookupLog, resolved, mounted, navs>>

\* a request body naming the event by the identifier of the path
RequestBody_PathIdentifier ==
    [companyName |-> companyName, eventName |-> eventId, form |-> formData]

\* the body of the POST request
RequestBody ==
    [companyName |-> companyName, eventName |-> event[1].id, form |-> formData]

\* the guards of handleSubmit that return before validation
SubmitBlocked == event = Null \/ eventDisabled \/ companyDisabled

(***************************************************************************)
(* handleSubmit up to its first await                                      *)
(***************************************************************************)
handleSubmit ==
    /\ ~EffectPending
    /\ SubmitEnabled
    /\ IF event = Null
       THEN /\ error' = "Event information is missing. Please refresh the page and try again."
            /\ lastOp' = "submit-blocked"
            /\ UNCHANGED <<formErrors, submitting, writes>>
       ELSE IF SubmitBlocked
       THEN /\ error' = "Registration is currently disabled for this event."
            /\ lastOp' = "submit-blocked"
            /\ UNCHANGED <<formErrors, submitting, writes>>
       ELSE IF HasErrors(formData)
       THEN /\ formErrors' = SubmitErrors(formData)
            /\ lastOp' = "submit-rejected"
            /\ UNCHANGED <<error, submitting, writes>>
       ELSE /\ Len(writes) + Len(resolved) < MaxWrites
            /\ formErrors' = SubmitErrors(formData)
            /\ submitting' = TRUE
            /\ error' = ""
            /\ writes' = Append(writes, RequestBody)
            /\ lastOp' = "submit"
    /\ UNCHANGED <<companyName, eventId, formData, loading, success, event,
                   eventDisabled, companyDisabled, effectDeps, lookups, lookupLog,
                   resolved, mounted, navs>>

\* a reset that forgets the two select fields
ResetForm_KeepsSelects ==
    [EmptyForm EXCEPT !.gender = formData.gender, !.status = formData.status]

\* the object handleSubmit passes to setFormData after a successful write
ResetForm == EmptyForm

\* the fallback message of handleSubmit
FallbackMessage == "Failed to register for event"

\* the message of the SyntaxError response.json() throws on an unreadable body
JsonErrorMessage == "Unexpected end of JSON input"

\* the message of the TypeError fetch rejects with on a transport failure
FetchErrorMessage == "Failed to fetch"

\* the message of the Error the try block ends with
WriteErrorMessage(resp) ==
    CASE resp.kind = "rejected" ->
           IF resp.error \in {Undefined, ""} THEN FallbackMessage
           ELSE resp.error
      [] resp.kind = "unreadable" -> JsonErrorMessage
      [] resp.kind = "network" -> FetchErrorMessage

(***************************************************************************)
(* handleSubmit after the response of write i has arrived                  *)
(***************************************************************************)
\* a continuation that shows the success view whatever the answer is
WriteResponse_SuccessAlways(i, resp) ==
    /\ ~EffectPending
    /\ i \in 1..Len(writes)
    /\ writes' = RemoveAt(writes, i)
    /\ resolved' = Append(resolved, [body |-> writes[i], kind |-> resp.kind,
                                     error |-> resp.error])
    /\ IF ~mounted
       THEN UNCHANGED <<formData, formErrors, submitting, error, success, lastOp>>
       ELSE /\ success' = TRUE
            /\ formData' = ResetForm
            /\ formErrors' = NoErrors
            /\ submitting' = FALSE
            /\ lastOp' = "write-ok"
            /\ UNCHANGED error
    /\ UNCHANGED <<companyName, eventId, loading, event, eventDisabled,
                   companyDisabled, effectDeps, lookups, lookupLog, mounted, navs>>

\* a continuation whose failure path leaves the submitting flag set
WriteResponse_NoFinally(i, resp) ==
    /\ ~EffectPending
    /\ i \in 1..Len(writes)
    /\ writes' = RemoveAt(writes, i)
    /\ resolved' = Append(resolved, [body |-> writes[i], kind |-> resp.kind,
                                     error |-> resp.error])
    /\ IF ~mounted
       THEN UNCHANGED <<formData, formErrors, submitting, error, success, lastOp>>
       ELSE IF resp.kind = "ok"
       THEN /\ success' = TRUE
            /\ formData' = ResetForm
            /\ formErrors' = NoErrors
            /\ submitting' = FALSE
            /\ lastOp' = "write-ok"
            /\ UNCHANGED error
       ELSE /\ error' = WriteErrorMessage(resp)
            /\ lastOp' = "write-failed"
            /\ UNCHANGED <<formData, formErrors, success, submitting>>
    /\ UNCHANGED <<companyName, eventId, loading, event, eventDisabled,
                   companyDisabled, effectDeps, lookups, lookupLog, mounted, navs>>

WriteResponse(i, resp) ==
    /\ ~EffectPending
    /\ i \in 1..Len(writes)
    /\ writes' = RemoveAt(writes, i)
    /\ resolved' = Append(resolved, [body |-> writes[i], kind |-> resp.kind,
                                     error |-> resp.error])
    /\ IF ~mounted
       THEN UNCHANGED <<formData, formErrors, submitting, error, success, lastOp>>
       ELSE IF resp.kind = "ok"
       THEN /\ success' = TRUE
            /\ formData' = ResetForm
            /\ formErrors' = NoErrors
            /\ submitting' = FALSE
            /\ lastOp' = "write-ok"
            /\ UNCHANGED error
       ELSE /\ error' = WriteErrorMessage(resp)
            /\ submitting' = FALSE
            /\ lastOp' = "write-failed"
            /\ UNCHANGED <<formData, formErrors, success>>
    /\ UNCHANGED <<companyName, eventId, loading, event, eventDisabled,
                   companyDisabled, effectDeps, lookups, lookupLog, mounted, navs>>

(***************************************************************************)
(* The component is torn down: later state updates are dropped             *)
(***************************************************************************)
Unmount ==
    /\ mounted
    /\ mounted' = FALSE
    /\ lastOp' = "unmount"
    /\ UNCHANGED <<companyName, eventId, formData, formErrors, loading, submitting,
                   error, success, event, eventDisabled, companyDisabled, effectDeps,
                   lookups, writes, lookupLog, resolved, navs>>

(***************************************************************************)
(* useParams yields other identifiers while the component stays mounted    *)
(***************************************************************************)
Navigate(company, id) ==
    /\ mounted
    /\ ~EffectPending
    /\ navs < MaxNav
    /\ <<company, id>> # <<companyName, eventId>>
    /\ companyName' = company
    /\ eventId' = id
    /\ navs' = navs + 1
    /\ lastOp' = "navigate"
    /\ UNCHANGED <<formData, formErrors, loading, submitting, error, success, event,
                   eventDisabled, companyDisabled, effectDeps, lookups, writes,
                   lookupLog, resolved, mounted>>

(***************************************************************************)
(* One page load with fixed identifiers                                    *)
(***************************************************************************)
Next ==
    \/ RunEffect
    \/ \E i \in 1..Len(lookups) : \E resp \in LookupResponses : LookupResponse(i, resp)
    \/ \E f \in AllFields : \E v \in FieldValues(f) : handleChange(f, v)
    \/ handleSubmit
    \/ \E i \in 1..Len(writes) : \E resp \in WriteResponses : WriteResponse(i, resp)

Spec == Init /\ [][Next]_vars

(***************************************************************************)
(* The life of the component: teardown and changing identifiers included   *)
(***************************************************************************)
NextLife ==
    \/ RunEffect
    \/ \E i \in 1..Len(lookups) : \E resp \in LookupResponses : LookupResponse(i, resp)
    \/ \E f \in TextFields : handleChange(f, ValidValue(f))
    \/ handleSubmit
    \/ \E i \in 1..Len(writes) : \E resp \in WriteResponses : WriteResponse(i, resp)
    \/ Unmount
    \/ \E c \in Companies : \E id \in PathIds : Navigate(c, id)

SpecLife == Init /\ [][NextLife]_vars

(***************************************************************************)
(* The validator on phone and on email strings: one page load in which the *)
(* user edits only that field                                              *)
(***************************************************************************)
InitFields == Init /\ companyName = "Acme" /\ eventId = <<"x">>

NextPhone ==
    \/ RunEffect
    \/ \E i \in 1..Len(lookups) : \E resp \in LookupResponses : LookupResponse(i, resp)
    \/ \E v \in PhoneInputs : handleChange("phone", v)

SpecPhone == InitFields /\ [][NextPhone]_vars

NextEmail ==
    \/ RunEffect
    \/ \E i \in 1..Len(lookups) : \E resp \in LookupResponses : LookupResponse(i, resp)
    \/ \E v \in EmailInputs : handleChange("email", v)

SpecEmail == InitFields /\ [][NextEmail]_vars

(***************************************************************************)
(* One page load up to its teardown, when React runs every pending effect  *)
(* and every network call is eventually answered                           *)
(***************************************************************************)
NextFair ==
    \/ RunEffect
    \/ \E i \in 1..Len(lookups) : \E resp \in LookupResponses : LookupResponse(i, resp)
    \/ \E f \in TextFields : handleChange(f, ValidValue(f))
    \/ handleSubmit
    \/ \E i \in 1..Len(writes) : \E resp \in WriteResponses : WriteResponse(i, resp)
    \/ Unmount

Fairness ==
    /\ WF_vars(RunEffect)
    /\ WF_vars(\E i \in 1..Len(lookups) : \E resp \in LookupResponses :
                   LookupResponse(i, resp))
    /\ WF_vars(\E i \in 1..Len(writes) : \E resp \in WriteResponses :
                   WriteResponse(i, resp))

SpecFair == Init /\ [][NextFair]_vars /\ Fairness

(***************************************************************************)
(* Properties                                                              *)
(***************************************************************************)
Last(s) == s[Len(s)]

\* the form content breaks a rule of the data model: a free-text field is empty
\* after trim, or phone or email does not match its pattern
BreaksFieldRules(data) ==
    \/ \E f \in TextFields : Trim(data[f]) = <<>>
    \/ ~PhonePattern(data.phone)
    \/ ~EmailPattern(data.email)

\* the labels lastOp takes when handleSubmit has run
SubmitOps == {"submit", "submit-rejected", "submit-blocked"}

\* C1: a submit action on a form content that breaks a field rule is rejected:
\* submitting is not set, no registration write is issued, the form values stay,
\* and the page still shows the form, enabled.
C1_InvalidSubmitRejected ==
    [][(lastOp' \in SubmitOps /\ BreaksFieldRules(formData))
        => /\ lastOp' = "submit-rejected"
           /\ submitting' = FALSE
           /\ writes' = writes
           /\ resolved' = resolved
           /\ formData' = formData
           /\ error' = error
           /\ FormRendered'
           /\ SubmitEnabled']_vars

C1_Witness ==
    /\ lastOp = "submit-rejected"
    /\ formData.name = <<"A", "d", "a">>
    /\ formData.phone = NineDigits
    /\ formErrors.phone = "Invalid phone number format. Must be 10-15 digits"
    /\ FormRendered

\* C2: when every lookup of the page load was answered access-denied and none is
\* outstanding, the page shows the organization-disabled view.
C2_DeniedEndsOrgDisabled ==
    (/\ lookups = <<>>
     /\ ~EffectPending
     /\ lookupLog # <<>>
     /\ \A i \in 1..Len(lookupLog) : lookupLog[i] = "denied")
    => View = "org-disabled"

\* C3: after a registration write has failed the form is rendered again with the
\* failure message as its banner, and the submit control is available.
C3_FailureReturnsToForm ==
    lastOp = "write-failed" => (FormRendered /\ BannerShown /\ SubmitEnabled)

\* C4: a lookup request is issued at page load, and after that only when the
\* organization identifier or the event identifier differs from the one the
\* previous lookup was issued for.
C4_LookupOnlyOnIdentifierChange ==
    [][Len(lookups') > Len(lookups)
        => \/ effectDeps = <<>>
           \/ <<effectDeps[1], effectDeps[2]>> # <<companyName, eventId>>]_vars

\* C5: at most one registration write is outstanding; while it is, submitting is
\* set and neither the inputs nor the submit control are enabled.
C5_OneWriteOutstanding ==
    /\ Len(writes) <= 1
    /\ Len(writes) = 1 => (submitting /\ ~SubmitEnabled /\ ~InputsEnabled)

C5_Witness == Len(writes) = 1 /\ submitting /\ FormRendered

\* the SubmissionStates whose flag holds
ActiveFlags ==
    {s \in {"loading", "fetch-error", "event-disabled", "org-disabled",
            "submitting", "success"} :
        CASE s = "loading" -> loading
          [] s = "fetch-error" -> error # ""
          [] s = "event-disabled" -> eventDisabled
          [] s = "org-disabled" -> companyDisabled
          [] s = "submitting" -> submitting
          [] s = "success" -> success}

\* C6: the flags never hold in a combination that stands for two states at once
\* (no flag set is the editing state).
C6_OneStateActive == Cardinality(ActiveFlags) <= 1

\* the labels lastOp takes when a handler of the form has run
FormOps == SubmitOps \cup {"change"}

\* C7: a registration write is issued only with an event resolved and neither
\* disabled flag set; no field change and no submit action happens while the page
\* is loading, in fetch-error, or has a disabled flag set.
C7_WriteOnlyWhenEnabled ==
    [][/\ Len(writes') > Len(writes)
            => (event # Null /\ ~eventDisabled /\ ~companyDisabled)
       /\ lastOp' \in FormOps
            => /\ ~loading
               /\ ~(error # "" /\ ~submitting)
               /\ ~eventDisabled
               /\ ~companyDisabled]_vars

C7_Witness ==
    /\ Len(writes) = 1
    /\ lastOp = "submit"
    /\ event # Null
    /\ ~eventDisabled
    /\ ~companyDisabled

\* C8: success is reached only from the submitting state, which is entered only
\* from the editing state; on reaching success, and for as long as success holds,
\* every form field has its empty default and the error map is empty.
C8_SuccessResetsForm ==
    /\ [](success => (formData = EmptyForm /\ formErrors = NoErrors))
    /\ [][/\ (success' /\ ~success)
               => /\ submitting
                  /\ ~submitting'
                  /\ Last(resolved').kind = "ok"
          /\ (submitting' /\ ~submitting)
               => (FormRendered /\ ~success /\ View' = "form")]_vars

C8_Witness ==
    /\ success
    /\ lastOp = "write-ok"
    /\ Last(resolved).body.form.gender = "female"
    /\ Last(resolved).body.form.status = "graduate"
    /\ formData = EmptyForm

\* C9: when a registration write fails, the form values after the failure are
\* the values before it and the values the write carried at the submit action.
C9_FailureKeepsForm ==
    [][lastOp' = "write-failed" /\ Len(resolved') > Len(resolved)
        => /\ formData' = formData
           /\ formData' = Last(resolved').body.form
           /\ formErrors' = formErrors]_vars

C9_Witness ==
    /\ lastOp = "write-failed"
    /\ formData.phone = TenDigits
    /\ formData = Last(resolved).body.form

\* C10: once success is set it stays set while the identifiers stay; with success
\* set the form is not rendered, nothing is being submitted and no write is
\* outstanding, so no field change, submit or response can leave the state.
C10_SuccessTerminal ==
    /\ [](success => (~FormRendered /\ ~submitting /\ writes = <<>>))
    /\ [][(success /\ companyName' = companyName /\ eventId' = eventId)
            => (success' /\ ~submitting' /\ writes' = writes
                /\ resolved' = resolved)]_vars

C10_Witness == success /\ View = "success" /\ Len(resolved) = 1

\* every lookup of the page load so far has found its event and none is outstanding
AllLookupsFound ==
    /\ lookups = <<>>
    /\ ~EffectPending
    /\ lookupLog # <<>>
    /\ \A i \in 1..Len(lookupLog) : lookupLog[i] = "found"

MatchingPositions(events, requested) ==
    {k \in 1..Len(events) : ToLower(Trim(events[k].id)) = ToLower(Trim(requested))}

TenToFifteenDigits(s) ==
    /\ Len(s) \in 10..15
    /\ {s[i] : i \in 1..Len(s)} \subseteq Digits

\* C13: the message validateField gives for a phone string is empty exactly when
\* the string is 10 to 15 digit characters and nothing else.
C13_PhoneValidIffDigits ==
    formErrors.phone # Undefined
        => ((formErrors.phone = "") <=> TenToFifteenDigits(formData.phone))

C13_Witness ==
    /\ lastOp = "change"
    /\ Len(formData.phone) = 15
    /\ formErrors.phone = ""

\* the positions of c in s
PositionsOf(c, s) == {i \in 1..Len(s) : s[i] = c}

\* s has exactly one '@' and a '.' somewhere after it
OneAtAndDotInDomain(s) ==
    /\ Cardinality(PositionsOf("@", s)) = 1
    /\ \E p \in PositionsOf("@", s) : \E j \in PositionsOf(".", s) : p < j

\* C14 as stated: the message validateField gives for an email string is empty
\* exactly when the string has one '@'-delimited split and a '.' in the domain.
C14_EmailValidIffOneAtAndDot ==
    formErrors.email # Undefined
        => ((formErrors.email = "") <=> OneAtAndDotInDomain(formData.email))

\* s has no whitespace, exactly one '@' with a character before it, and after it
\* a '.' that is neither the first nor the last character of the domain
StrictEmailShape(s) ==
    /\ PositionsOf(" ", s) = {}
    /\ Cardinality(PositionsOf("@", s)) = 1
    /\ \E p \in PositionsOf("@", s) :
          /\ p > 1
          /\ \E j \in PositionsOf(".", s) : p + 1 < j /\ j < Len(s)

\* C14 amended: the message is empty exactly when the string has no whitespace,
\* exactly one '@' after a non-empty local part, and a domain holding a '.' that
\* is neither its first nor its last character.
C14_EmailValidIffStrictShape ==
    formErrors.email # Undefined
        => ((formErrors.email = "") <=> StrictEmailShape(formData.email))

C14_Witness ==
    /\ lastOp = "change"
    /\ formData.email = <<"a", "@", "a", ".", "a">>
    /\ formErrors.email = ""

\* C15: when the resolved event has status 'disabled' and companyStatus
\* 'disabled' and a disabled view is shown, it is the org-disabled view.
C15_OrgDisabledTakesPrecedence ==
    (/\ event # Null
     /\ event[1].status = "disabled"
     /\ event[1].companyStatus = "disabled"
     /\ View \in {"event-disabled", "org-disabled"})
    => View = "org-disabled"

\* C16: a field change sets that field's value and that field's error entry to
\* validateField(field, value) and changes nothing else; no request is issued.
C16_ChangeTouchesOneField ==
    [][lastOp' = "change"
        => /\ \E f \in AllFields : \E v \in FieldValues(f) :
                /\ formData'[f] = v
                /\ formErrors'[f] = validateField(f, v)
                /\ \A g \in AllFields \ {f} :
                      formData'[g] = formData[g] /\ formErrors'[g] = formErrors[g]
           /\ UNCHANGED <<loading, submitting, error, success, event, eventDisabled,
                          companyDisabled, lookups, writes, lookupLog, resolved>>
           /\ FormRendered /\ ~submitting]_vars

C16_Witness ==
    /\ lastOp = "change"
    /\ formData.name = <<" ">>
    /\ formErrors.name = "Full name is required"
    /\ formData.phone = NineDigits
    /\ formErrors.phone = "Invalid phone number format. Must be 10-15 digits"
    /\ formData.gender = "female"
    /\ formErrors.gender = ""
    /\ formErrors.email = Undefined

\* what C17 says is surfaced: the server's reason if present, else the fallback
ReasonOrFallback(r) ==
    IF r.error \notin {Undefined, ""} THEN r.error ELSE "Failed to register for event"

\* C17 as stated: after every failed write the error shown is the server's reason
\* if present and the generic fallback otherwise.
C17_ReasonOrFallbackAlways ==
    lastOp = "write-failed" => error = ReasonOrFallback(Last(resolved))

\* the one message each free-text field can show
MessagesOf(f) ==
    CASE f = "name" -> {"Full name is required"}
      [] f = "phone" -> {"Phone number is required",
                         "Invalid phone number format. Must be 10-15 digits"}
      [] f = "email" -> {"Email is required", "Invalid email format"}
      [] f = "college" -> {"College name is required"}
      [] f = "nationalId" -> {"National ID is required"}

\* C18: after a submit rejected by validation the error map holds an entry for
\* exactly the free-text fields whose value fails validation, each with a message
\* of its own field, and nothing for any other field; gender and status never
\* hold a message.
C18_RejectedSubmitShowsAllErrors ==
    /\ \A f \in SelectFields : formErrors[f] \in {Undefined, ""}
    /\ lastOp = "submit-rejected"
         => /\ \A f \in TextFields :
                  IF validateField(f, formData[f]) # ""
                  THEN /\ formErrors[f] = validateField(f, formData[f])
                       /\ formErrors[f] \in MessagesOf(f)
                  ELSE formErrors[f] = Undefined
            /\ \A f \in SelectFields : formErrors[f] = Undefined
            /\ \E f \in TextFields : formErrors[f] # Undefined

C18_Witness ==
    /\ lastOp = "submit-rejected"
    /\ formData.name = <<"A", "d", "a">>
    /\ formErrors.name = Undefined
    /\ formData.gender = "female"
    /\ formErrors.phone = "Invalid phone number format. Must be 10-15 digits"
    /\ formErrors.email = "Email is required"

\* the request of lookup i is no longer current: the component is torn down, or
\* the identifiers have changed since the lookup was issued
Superseded(i) ==
    \/ ~mounted
    \/ <<lookups[i].company, lookups[i].eventId>> # <<companyName, eventId>>

\* C19: a response that arrives for a lookup that is no longer current changes
\* neither the event, nor the disabled flags, nor the error message, nor the
\* loading flag; a write's response that arrives after teardown changes nothing
\* of the page.
C19_StaleResponseIgnored ==
    [][/\ \A i \in 1..Len(lookups) : \A resp \in LookupResponses :
            (LookupResponse(i, resp) /\ Superseded(i))
                => UNCHANGED <<event, eventDisabled, companyDisabled, error, loading>>
       /\ \A i \in 1..Len(writes) : \A resp \in WriteResponses :
            (WriteResponse(i, resp) /\ ~mounted)
                => UNCHANGED <<formData, formErrors, submitting, error, success>>]_vars

\* C20: every registration write, outstanding or resolved, carries the
\* organization name of the path, the id of the resolved event as the lookup
\* returned it, and form values that pass validation; while a write is
\* outstanding the form values are the ones it carries.
C20_WriteCarriesSubmittedValues ==
    /\ \A i \in 1..Len(writes) :
          /\ writes[i].companyName = companyName
          /\ event # Null
          /\ writes[i].eventName = event[1].id
          /\ writes[i].eventName \in ResponseIds
          /\ ~BreaksFieldRules(writes[i].form)
          /\ writes[i].form = formData
    /\ \A i \in 1..Len(resolved) :
          /\ resolved[i].body.companyName = companyName
          /\ event # Null
          /\ resolved[i].body.eventName = event[1].id
          /\ ~BreaksFieldRules(resolved[i].body.form)

C20_Witness ==
    /\ Len(writes) = 1
    /\ eventId = <<"x">>
    /\ writes[1].eventName = <<" ", "X">>
    /\ writes[1].form.gender = "female"
    /\ writes[1].form = formData

\* C21: when every pending effect runs and every network call is answered, a
\* mounted page that is loading eventually stops loading and a mounted page that
\* is submitting eventually stops submitting, whatever the answers are.
C21_FlagsEventuallyFalse ==
    /\ (mounted /\ loading) ~> (~mounted \/ ~loading)
    /\ (mounted /\ submitting) ~> (~mounted \/ ~submitting)

\* a failed write and a failed lookup have both been answered and both flags
\* are down
C21_Witness ==
    /\ mounted
    /\ ~loading
    /\ ~submitting
    /\ lastOp = "write-failed"
    /\ Len(resolved) > 0
    /\ Last(resolved).kind = "network"

\* C22: in every reachable state, for every field, an error-map entry that
\* holds a message is the message validateField gives for the field's current
\* value: no message is stale, after changes, rejected, failed and successful
\* submits.
C22_ErrorsNeverStale ==
    \A f \in AllFields :
        formErrors[f] \notin {Undefined, ""}
            => formErrors[f] = validateField(f, formData[f])

\* a rejected submit has reported the empty email, and a later change has
\* replaced an invalid phone number by a valid one
C22_Witness ==
    /\ lastOp = "change"
    /\ formData.phone = TenDigits
    /\ formErrors.phone = ""
    /\ formData.email = <<>>
    /\ formErrors.email = "Email is required"
    /\ formData.name = <<>>
    /\ formErrors.name = "Full name is required"

\* the positions of the answered writes whose answer was a success
SucceededWrites == {k \in 1..Len(resolved) : resolved[k].kind = "ok"}

\* C23: during one page load at most one registration write is answered with
\* success, and the success flag is set only by the step in which a write
\* issued from this page (it names the page's organization and the resolved
\* event) is answered with success.
C23_OneSuccessAfterOkWrite ==
    /\ [](Cardinality(SucceededWrites) <= 1)
    /\ [](success => SucceededWrites # {})
    /\ [][(~success /\ success')
            => /\ writes # <<>>
               /\ \E i \in 1..Len(writes) :
                    /\ resolved' = Append(resolved, [body |-> writes[i], kind |-> "ok",
                                                     error |-> Undefined])
                    /\ writes[i].companyName = companyName
                    /\ event # Null
                    /\ writes[i].eventName = event[1].id]_vars

\* the one write of the page load has been answered with success
C23_Witness ==
    /\ success
    /\ lastOp = "write-ok"
    /\ Cardinality(SucceededWrites) = 1
    /\ writes = <<>>

====
